---- MODULE Spec2Model ----
(***************************************************************************)
(* The PDF retrieval pipeline of src/app.py (main, lines 184-255): page    *)
(* extraction, the two chunking stages, the Chroma collection "tmp" and    *)
(* the nearest-neighbour query whose documents are handed to rag().        *)
(*                                                                         *)
(* A text is a sequence of one-character strings.  The library calls of    *)
(* the script (langchain's RecursiveCharacterTextSplitter and              *)
(* SentenceTransformersTokenTextSplitter, chromadb's create_collection,    *)
(* add and query) are modelled by what the call made on that line does.    *)
(* Streamlit runs main() from the top on every widget interaction, in one  *)
(* Python process: the in-memory Chroma system outlives a run, the local   *)
(* variables of main() do not.                                             *)
(***************************************************************************)
EXTENDS Integers, Sequences, FiniteSets, TLC

\* ------------------------------------------------------------------ bounds

\* Characters a page's extracted text is made of: an upper-case letter, a
\* lower-case letter, a full stop, a space and a line break.
Alphabet == {"A", "b", ".", " ", "\n"}

\* A page's text is a unit of at most MaxUnitLen characters repeated at most
\* MaxRepeat times.
MaxUnitLen == 2

MaxRepeat == 5

\* Runs of main() in one process.
MaxRuns == 2

\* chunk_size of the character splitter (1000 in the script), scaled down.
chunk_size == 4

\* tokens_per_chunk of the token splitter (256 in the script), scaled down.
tokens_per_chunk == 2

\* max_input_chars_per_word of the tokenizer's WordPiece (100 in the
\* library), scaled down.
max_input_chars_per_word == 3

\* chunk_overlap of both splitters.
chunk_overlap == 0

\* n_results of the query.
n_results == 5

\* separators of the character splitter, coarsest first.
separators == << <<"\n", "\n">>, <<"\n">>, <<".", " ">>, <<" ">>, << >> >>

\* ------------------------------------------------------------ text helpers

Whitespace == {" ", "\n"}

RECURSIVE Repeat(_, _)
Repeat(u, r) == IF r = 0 THEN << >> ELSE u \o Repeat(u, r - 1)

Strings(n) == UNION {[1..k -> Alphabet] : k \in 0..n}

RECURSIVE Concat(_)
Concat(ts) == IF ts = << >> THEN << >> ELSE Head(ts) \o Concat(Tail(ts))

RECURSIVE Join(_, _)
Join(ts, sep) ==
    IF ts = << >> THEN << >>
    ELSE IF Len(ts) = 1 THEN ts[1]
    ELSE ts[1] \o sep \o Join(Tail(ts), sep)

RECURSIVE lstrip(_)
lstrip(t) ==
    IF t # << >> /\ Head(t) \in Whitespace THEN lstrip(Tail(t)) ELSE t

RECURSIVE rstrip(_)
rstrip(t) ==
    IF t # << >> /\ t[Len(t)] \in Whitespace
    THEN rstrip(SubSeq(t, 1, Len(t) - 1))
    ELSE t

\* str.strip()
strip(t) == rstrip(lstrip(t))

StartsWith(t, p) == Len(t) >= Len(p) /\ SubSeq(t, 1, Len(p)) = p

\* re.search(re.escape(sep), text) is not None
Contains(t, p) == \E i \in 1..(Len(t) - Len(p) + 1) : SubSeq(t, i, i + Len(p) - 1) = p

\* ---------------------------------------------------------------- documents

PageTexts == {Repeat(u, r) : u \in Strings(MaxUnitLen), r \in 1..MaxRepeat}

ShortPages == Strings(1)

Docs ==
    {<< >>} \cup {<<p>> : p \in PageTexts}
    \cup {<<p, q>> : p \in PageTexts, q \in ShortPages}
    \cup {<<q, p>> : p \in PageTexts, q \in ShortPages}

ReuploadDocs == {<< >>} \cup {<<q>> : q \in ShortPages}

\* ---------------------------------------------------------------- extractor

extract_pages(ps) == [i \in 1..Len(ps) |-> strip(ps[i])]

\* A filter that drops nothing.
keep_all(ts) == ts

filter_empty(ts) == SelectSeq(ts, LAMBDA t : t # << >>)

\* ------------------------------------------- stage 1: character splitter

\* The texts between the non-overlapping matches of sep, left to right
\* (the even entries of re.split("(sep)", text)).
RECURSIVE Between(_, _, _)
Between(t, sep, cur) ==
    IF t = << >> THEN <<cur>>
    ELSE IF StartsWith(t, sep)
         THEN <<cur>> \o Between(SubSeq(t, Len(sep) + 1, Len(t)), sep, << >>)
         ELSE Between(Tail(t), sep, Append(cur, Head(t)))

\* _split_text_with_regex(text, separator, keep_separator=True): each
\* separator stays at the head of the piece that follows it; the empty
\* separator splits into characters; empty pieces are dropped.
split_text_with_regex(t, sep) ==
    LET parts == Between(t, sep, << >>)
        splits == IF sep = << >>
                  THEN [i \in 1..Len(t) |-> <<t[i]>>]
                  ELSE [i \in 1..Len(parts) |->
                           IF i = 1 THEN parts[1] ELSE sep \o parts[i]]
    IN  SelectSeq(splits, LAMBDA s : s # << >>)

\* TextSplitter._join_docs with strip_whitespace=True; the empty text
\* stands for None.
join_docs(docs, sep) == strip(Join(docs, sep))

\* The while loop of _merge_splits that drops the head of current_doc until
\* what is left fits the overlap.
RECURSIVE pop_overlap(_, _, _, _)
pop_overlap(cur, total, len, seplen) ==
    IF total > chunk_overlap
       \/ (total + len + (IF Len(cur) > 0 THEN seplen ELSE 0) > chunk_size
           /\ total > 0)
    THEN pop_overlap(Tail(cur),
                     total - (Len(cur[1]) + (IF Len(cur) > 1 THEN seplen ELSE 0)),
                     len, seplen)
    ELSE [cur |-> cur, total |-> total]

\* The for loop of TextSplitter._merge_splits.
RECURSIVE merge_loop(_, _, _, _, _)
merge_loop(splits, sep, docs, cur, total) ==
    IF splits = << >>
    THEN LET doc == join_docs(cur, sep)
         IN  IF doc # << >> THEN Append(docs, doc) ELSE docs
    ELSE LET d == Head(splits)
             len == Len(d)
             over == total + len + (IF Len(cur) > 0 THEN Len(sep) ELSE 0)
                        > chunk_size
             flush == over /\ Len(cur) > 0
             doc == join_docs(cur, sep)
             docs1 == IF flush /\ doc # << >> THEN Append(docs, doc) ELSE docs
             st == IF flush THEN pop_overlap(cur, total, len, Len(sep))
                   ELSE [cur |-> cur, total |-> total]
             cur1 == Append(st.cur, d)
         IN  merge_loop(Tail(splits), sep, docs1, cur1,
                        st.total + len + (IF Len(cur1) > 1 THEN Len(sep) ELSE 0))

\* A merge that joins all pieces into one text, whatever its length.
merge_no_limit(splits, sep) ==
    LET doc == join_docs(splits, sep) IN IF doc # << >> THEN <<doc>> ELSE << >>

merge_splits(splits, sep) == merge_loop(splits, sep, << >>, << >>, 0)

\* The separator _split_text settles on: the first of the list found in the
\* text (the empty one is always found), with the finer ones left over.
RECURSIVE pick_separator(_, _)
pick_separator(t, seps) ==
    IF seps = << >> THEN [separator |-> << >>, new_separators |-> << >>, found |-> FALSE]
    ELSE IF Head(seps) = << >>
         THEN [separator |-> << >>, new_separators |-> << >>, found |-> TRUE]
    ELSE IF Contains(t, Head(seps))
         THEN [separator |-> Head(seps), new_separators |-> Tail(seps), found |-> TRUE]
    ELSE pick_separator(t, Tail(seps))

\* RecursiveCharacterTextSplitter._split_text: pieces shorter than chunk_size
\* are merged, the others are split again by the finer separators.
RECURSIVE split_text_rec(_, _)
RECURSIVE split_loop(_, _, _, _)
split_loop(splits, new_separators, final_chunks, good_splits) ==
    IF splits = << >>
    THEN IF good_splits # << >>
         THEN final_chunks \o merge_splits(good_splits, << >>)
         ELSE final_chunks
    ELSE LET s == Head(splits) IN
         IF Len(s) < chunk_size
         THEN split_loop(Tail(splits), new_separators, final_chunks,
                         Append(good_splits, s))
         ELSE LET flushed == IF good_splits # << >>
                             THEN final_chunks \o merge_splits(good_splits, << >>)
                             ELSE final_chunks
                  more == IF new_separators = << >> THEN <<s>>
                          ELSE split_text_rec(s, new_separators)
              IN  split_loop(Tail(splits), new_separators, flushed \o more, << >>)

split_text_rec(t, seps) ==
    LET p == pick_separator(t, seps)
        separator == IF p.found THEN p.separator ELSE seps[Len(seps)]
    IN  split_loop(split_text_with_regex(t, separator), p.new_separators,
                   << >>, << >>)

\* character_splitter.split_text(text)
character_split(t) == split_text_rec(t, separators)

\* ----------------------------------------------- stage 2: token splitter

\* chunk_overlap of the token splitter.
token_chunk_overlap == 0

Min(a, b) == IF a < b THEN a ELSE b

\* The tokenizer lower-cases its input.
lower(c) == IF c = "A" THEN "a" ELSE c

\* The punctuation marks of the texts at hand; "#" occurs only in decoded
\* chunks.
Punctuation == {".", "#"}

\* The tokenizer's token for what it cannot split into pieces; in a text it
\* is one element.
UnknownToken == "[UNK]"

\* A word becomes its first letter followed by one "##" continuation piece
\* per further letter (WordPiece over a vocabulary of single letters).
word_pieces(w) ==
    [i \in 1..Len(w) |-> IF i = 1 THEN <<w[1]>> ELSE <<"#", "#", w[i]>>]

\* WordPiece on one word: a word of more than max_input_chars_per_word
\* characters is not split but becomes the unknown token.
wordpiece(w) ==
    IF w = << >> THEN << >>
    ELSE IF Len(w) > max_input_chars_per_word THEN << <<UnknownToken>> >>
    ELSE word_pieces(w)

\* tokenizer.encode without the start and stop tokens: the text is
\* lower-cased, white space separates words, a punctuation mark or an
\* unknown token is a token of its own, and every word goes through
\* WordPiece.
RECURSIVE encode_loop(_, _, _)
encode_loop(t, word, ids) ==
    IF t = << >> THEN ids \o wordpiece(word)
    ELSE LET c == lower(Head(t)) IN
         IF c \in Whitespace
         THEN encode_loop(Tail(t), << >>, ids \o wordpiece(word))
         ELSE IF c \in Punctuation \cup {UnknownToken}
              THEN encode_loop(Tail(t), << >>, (ids \o wordpiece(word)) \o << <<c>> >>)
         ELSE encode_loop(Tail(t), Append(word, c), ids)

encode(t) == encode_loop(t, << >>, << >>)

\* tokenizer.decode: a continuation piece after the first token loses its
\* "##" and joins the token before it, any other token is set off by a
\* space, and the space before a full stop is cleaned up.
decode_piece(tok, i) ==
    IF i = 1 THEN tok
    ELSE IF StartsWith(tok, <<"#", "#">>) THEN SubSeq(tok, 3, Len(tok))
    ELSE IF tok = <<".">> THEN tok
    ELSE <<" ">> \o tok

decode(ids) == Concat([i \in 1..Len(ids) |-> decode_piece(ids[i], i)])

\* The while loop of split_text_on_tokens, collecting chunk_ids.
RECURSIVE tokens_loop(_, _, _, _)
tokens_loop(input_ids, start_idx, cur_idx, chunks) ==
    IF ~(start_idx < Len(input_ids)) THEN chunks
    ELSE LET out == Append(chunks, SubSeq(input_ids, start_idx + 1, cur_idx))
             start1 == start_idx + tokens_per_chunk - token_chunk_overlap
         IN  IF cur_idx = Len(input_ids) THEN out
             ELSE tokens_loop(input_ids, start1,
                              Min(start1 + tokens_per_chunk, Len(input_ids)), out)

\* The chunk_ids split_text_on_tokens decodes, in order.
split_ids_on_tokens(input_ids) ==
    tokens_loop(input_ids, 0, Min(tokens_per_chunk, Len(input_ids)), << >>)

\* token_splitter.split_text(text), as the ids of each chunk
token_split_ids_of(t) == split_ids_on_tokens(encode(t))

\* The loop of lines 219-221 over the stage-1 segments, as chunk ids.
RECURSIVE token_split_all(_)
token_split_all(texts) ==
    IF texts = << >> THEN << >>
    ELSE token_split_ids_of(Head(texts)) \o token_split_all(Tail(texts))

decode_all(chunks) == [i \in 1..Len(chunks) |-> decode(chunks[i])]

\* ------------------------------------------------------ embedding and index

Count(t, c) == Cardinality({i \in 1..Len(t) : t[i] = c})

\* The embedding function: a fixed map from a text to a vector of fixed
\* dimension (here: its letters and its full stops).
embed(t) == <<Count(t, "a") + Count(t, "b") + Count(t, "A"), Count(t, ".")>>

\* Chroma's default space "l2": the squared Euclidean distance.
distance(u, v) == (u[1] - v[1]) * (u[1] - v[1]) + (u[2] - v[2]) * (u[2] - v[2])

\* ids = [str(i) for i in range(len(token_split_texts))]
make_ids(n) == [i \in 1..n |-> ToString(i - 1)]

\* The entries Collection.add appends: one (id, document, embedding) per
\* document, in order.
add_entries(entries, ids, documents) ==
    entries \o [i \in 1..Len(ids) |->
                   [id |-> ids[i], document |-> documents[i],
                    embedding |-> embed(documents[i])]]

\* The positions in insertion order, whatever the distances.
RECURSIVE by_insertion(_, _, _)
by_insertion(entries, q, left) ==
    IF left = {} THEN << >>
    ELSE LET first == CHOOSE i \in left : \A j \in left : i <= j
         IN  <<first>> \o by_insertion(entries, q, left \ {first})

\* The positions of entries in ascending (distance, insertion) order.
RECURSIVE ranked(_, _, _)
ranked(entries, q, left) ==
    IF left = {} THEN << >>
    ELSE LET best == CHOOSE i \in left : \A j \in left :
                        \/ distance(entries[i].embedding, q) < distance(entries[j].embedding, q)
                        \/ /\ distance(entries[i].embedding, q) = distance(entries[j].embedding, q)
                           /\ i <= j
         IN  <<best>> \o ranked(entries, q, left \ {best})

\* The sets of k positions the index may return.  The collection's index is
\* an approximate nearest-neighbour graph (HNSW): what it finds are k stored
\* entries, with no guarantee that no entry left out is nearer.
nearest_sets(entries, q, k) ==
    {S \in SUBSET (1..Len(entries)) : Cardinality(S) = k}

\* The result of Collection.query for one query text, given the positions
\* found: n_results is cut to the size of the index.
query_result(entries, q, S) ==
    LET order == ranked(entries, q, S)
    IN  [ids |-> [i \in 1..Len(order) |-> entries[order[i]].id],
         documents |-> [i \in 1..Len(order) |-> entries[order[i]].document],
         distances |-> [i \in 1..Len(order) |->
                           distance(entries[order[i]].embedding, q)]]

\* A query that returns every entry of the index.
result_count_all(n) == n

\* n_results as the query uses it: no more than the index holds.
result_count(n) == Min(n_results, n)

\* Questions typed into the text input.
Queries == {<<"b">>, <<"b", ".", " ", "A">>}

\* -------------------------------------------------------------------- state

VARIABLES
    pc,                     \* the statement of main() the run has reached
    runs,                   \* runs of main() so far in this process
    error,                  \* the exception that ended the run, or "none"
    pages,                  \* reader.pages: the text of each page
    pdf_texts,              \* line 204
    character_split_texts,  \* line 211
    token_split_ids,        \* the chunk_ids behind each text of line 221
    token_split_texts,      \* line 221
    collections,            \* the Chroma system: collection name -> entries
    query,                  \* line 235
    results,                \* line 236, for the one query text
    retrieved_documents,    \* line 237
    rag_call                \* the arguments of rag(), line 247

vars == <<pc, runs, error, pages, pdf_texts, character_split_texts,
          token_split_ids, token_split_texts, collections, query, results,
          retrieved_documents, rag_call>>

locals == <<pdf_texts, character_split_texts, token_split_ids,
            token_split_texts, query, results, retrieved_documents, rag_call>>

NoCollections == [n \in {} |-> << >>]

NoResults == [ids |-> << >>, documents |-> << >>, distances |-> << >>]

NoCall == [made |-> FALSE, query |-> << >>, retrieved_documents |-> << >>]

FreshLocals ==
    /\ pdf_texts' = << >>
    /\ character_split_texts' = << >>
    /\ token_split_ids' = << >>
    /\ token_split_texts' = << >>
    /\ query' = << >>
    /\ results' = NoResults
    /\ retrieved_documents' = << >>
    /\ rag_call' = NoCall

Init ==
    /\ pc = "uploaded"
    /\ runs = 1
    /\ error = "none"
    /\ pages \in Docs
    /\ pdf_texts = << >>
    /\ character_split_texts = << >>
    /\ token_split_ids = << >>
    /\ token_split_texts = << >>
    /\ collections = NoCollections
    /\ query = << >>
    /\ results = NoResults
    /\ retrieved_documents = << >>
    /\ rag_call = NoCall

\* ------------------------------------------------------------------ actions

\* Lines 200-204: strip every page's text and drop the empty ones.
Extract ==
    /\ pc = "uploaded"
    /\ pdf_texts' = filter_empty(extract_pages(pages))
    /\ pc' = "extracted"
    /\ UNCHANGED <<runs, error, pages, character_split_texts, token_split_ids,
                   token_split_texts, collections, query, results,
                   retrieved_documents, rag_call>>

\* Lines 208-211: split the pages joined by a blank line.
CharSplit ==
    /\ pc = "extracted"
    /\ character_split_texts' = character_split(Join(pdf_texts, <<"\n", "\n">>))
    /\ pc' = "char_split"
    /\ UNCHANGED <<runs, error, pages, pdf_texts, token_split_ids,
                   token_split_texts, collections, query, results,
                   retrieved_documents, rag_call>>

\* Lines 216-221: split every segment again by tokens.
TokenSplit ==
    /\ pc = "char_split"
    /\ token_split_ids' = token_split_all(character_split_texts)
    /\ token_split_texts' = decode_all(token_split_ids')
    /\ pc' = "token_split"
    /\ UNCHANGED <<runs, error, pages, pdf_texts, character_split_texts,
                   collections, query, results, retrieved_documents, rag_call>>

\* Lines 226-229 when this process holds no collection "tmp" yet.
CreateCollection ==
    /\ pc = "token_split"
    /\ "tmp" \notin DOMAIN collections
    /\ collections' = [n \in DOMAIN collections \cup {"tmp"} |->
                          IF n = "tmp" THEN << >> ELSE collections[n]]
    /\ pc' = "created"
    /\ UNCHANGED <<runs, error, pages, locals>>

\* The same lines as get_or_create_collection would run them when "tmp"
\* exists: the run goes on with the collection of the earlier run.
CreateCollectionReuse ==
    /\ pc = "token_split"
    /\ "tmp" \in DOMAIN collections
    /\ pc' = "created"
    /\ UNCHANGED <<runs, error, pages, locals, collections>>

\* Lines 226-229 when "tmp" exists: create_collection raises, the run ends.
CreateCollectionExists ==
    /\ pc = "token_split"
    /\ "tmp" \in DOMAIN collections
    /\ error' = "UniqueConstraintError"
    /\ pc' = "error"
    /\ UNCHANGED <<runs, pages, locals, collections>>

\* Lines 230-231 with at least one chunk, the embedding succeeding.
AddOk ==
    /\ pc = "created"
    /\ token_split_texts # << >>
    /\ collections' = [collections EXCEPT !["tmp"] =
           add_entries(@, make_ids(Len(token_split_texts)), token_split_texts)]
    /\ pc' = "added"
    /\ UNCHANGED <<runs, error, pages, locals>>

\* Lines 230-231 with no chunk: add rejects an empty list of ids.
AddEmpty ==
    /\ pc = "created"
    /\ token_split_texts = << >>
    /\ error' = "ValueError"
    /\ pc' = "error"
    /\ UNCHANGED <<runs, pages, locals, collections>>

\* An add whose failure is swallowed: the run goes on to the query.
AddEmbedFailIgnored ==
    /\ pc = "created"
    /\ token_split_texts # << >>
    /\ pc' = "added"
    /\ UNCHANGED <<runs, error, pages, locals, collections>>

\* Lines 230-231 with the embedding of the batch failing: add embeds all
\* documents before it writes any, and the exception ends the run.
AddEmbedFail ==
    /\ pc = "created"
    /\ token_split_texts # << >>
    /\ error' = "EmbeddingError"
    /\ pc' = "error"
    /\ UNCHANGED <<runs, pages, locals, collections>>

\* Lines 235-237: the question and the nearest entries of "tmp".
Query ==
    /\ pc = "added"
    /\ \E q \in Queries :
         \E S \in nearest_sets(collections["tmp"], embed(q),
                               result_count(Len(collections["tmp"]))) :
            /\ query' = q
            /\ results' = query_result(collections["tmp"], embed(q), S)
            /\ retrieved_documents' = results'.documents
    /\ pc' = "queried"
    /\ UNCHANGED <<runs, error, pages, pdf_texts, character_split_texts,
                   token_split_ids, token_split_texts, collections, rag_call>>

\* Line 247: the question and the retrieved documents go to rag().
Rag ==
    /\ pc = "queried"
    /\ rag_call' = [made |-> TRUE, query |-> query,
                    retrieved_documents |-> retrieved_documents]
    /\ pc' = "done"
    /\ UNCHANGED <<runs, error, pages, pdf_texts, character_split_texts,
                   token_split_ids, token_split_texts, collections, query,
                   results, retrieved_documents>>

\* A widget interaction: Streamlit runs main() again on the same upload.
Rerun ==
    /\ runs < MaxRuns
    /\ runs' = runs + 1
    /\ pc' = "uploaded"
    /\ error' = "none"
    /\ FreshLocals
    /\ UNCHANGED <<pages, collections>>

\* Another file is uploaded: main() runs again on it.
Reupload ==
    /\ runs < MaxRuns
    /\ runs' = runs + 1
    /\ pc' = "uploaded"
    /\ error' = "none"
    /\ pages' \in ReuploadDocs
    /\ FreshLocals
    /\ UNCHANGED collections

Next ==
    \/ Extract
    \/ CharSplit
    \/ TokenSplit
    \/ CreateCollection
    \/ CreateCollectionExists
    \/ AddOk
    \/ AddEmpty
    \/ AddEmbedFail
    \/ Query
    \/ Rag
    \/ Rerun
    \/ Reupload

Spec == Init /\ [][Next]_vars

\* ------------------------------------------------------ properties: helpers

NoWS(t) == SelectSeq(t, LAMBDA c : c \notin Whitespace)

Blank(t) == NoWS(t) = << >>

\* A page's text between its first and its last non-blank character.
Trimmed(p) ==
    LET nz == {i \in 1..Len(p) : p[i] \notin Whitespace}
    IN  IF nz = {} THEN << >>
        ELSE SubSeq(p, CHOOSE i \in nz : \A j \in nz : i <= j,
                       CHOOSE i \in nz : \A j \in nz : i >= j)

\* The trimmed texts of the non-blank pages, in page order.
RECURSIVE RetainedPages(_)
RetainedPages(ps) ==
    IF ps = << >> THEN << >>
    ELSE (IF Blank(Head(ps)) THEN << >> ELSE <<Trimmed(Head(ps))>>)
         \o RetainedPages(Tail(ps))

Entries == IF "tmp" \in DOMAIN collections THEN collections["tmp"] ELSE << >>

Answered == pc \in {"queried", "done"}

Chunked == pc \in {"token_split", "created", "added", "queried", "done", "error"}

\* The position in the index of the i-th result.
PosOf(i) == CHOOSE p \in 1..Len(Entries) : Entries[p].id = results.ids[i]

QueryDistance(p) == distance(Entries[p].embedding, embed(query))

\* ------------------------------------------------------------------- claims

\* C1 (as claimed): every chunk of the final chunk sequence, and so every
\* document of the index, has at most tokens_per_chunk tokens under the
\* splitter's tokenizer and is neither empty nor blank.
C1_TokenBudgetAsClaimed ==
    /\ \A i \in 1..Len(token_split_texts) :
          /\ Len(encode(token_split_texts[i])) <= tokens_per_chunk
          /\ ~Blank(token_split_texts[i])
    /\ \A i \in 1..Len(Entries) :
          /\ Len(encode(Entries[i].document)) <= tokens_per_chunk
          /\ ~Blank(Entries[i].document)

\* C2 (as claimed): the chunks, concatenated in order, reproduce the
\* extracted text up to white space.
C2_CoverageAsClaimed ==
    Chunked => NoWS(Concat(token_split_texts))
                  = NoWS(Join(pdf_texts, <<"\n", "\n">>))

\* C3: the extractor keeps exactly the non-blank pages, trimmed and in page
\* order, with no entry for a dropped page; a 2-page document whose second
\* page is blank is chunked as its first page alone.
C3_ExtractorTrimsAndDrops ==
    pc # "uploaded" =>
       /\ pdf_texts = RetainedPages(pages)
       /\ \A i \in 1..Len(pdf_texts) :
             /\ pdf_texts[i] # << >>
             /\ pdf_texts[i][1] \notin Whitespace
             /\ pdf_texts[i][Len(pdf_texts[i])] \notin Whitespace
       /\ Len(pdf_texts) = Cardinality({i \in 1..Len(pages) : ~Blank(pages[i])})
       /\ (Chunked /\ Len(pages) = 2 /\ Blank(pages[2]) /\ ~Blank(pages[1])) =>
             token_split_texts
                = decode_all(token_split_all(character_split(Trimmed(pages[1]))))

\* A 2-page document with a blank second page has been chunked.
C3_Witness ==
    /\ pc = "token_split"
    /\ Len(pages) = 2
    /\ pages[2] # << >> /\ Blank(pages[2])
    /\ pages[1] # Trimmed(pages[1])
    /\ token_split_texts # << >>

\* C4: no stage-1 segment is longer than chunk_size, and a one-page text
\* holding none of the separators is cut every chunk_size characters: all
\* segments have chunk_size characters but the last, which has the rest.
C4_ForceSplitAtChunkSize ==
    pc \notin {"uploaded", "extracted"} =>
       /\ \A i \in 1..Len(character_split_texts) :
             Len(character_split_texts[i]) <= chunk_size
       /\ (Len(pages) = 1 /\ NoWS(pages[1]) = pages[1]) =>
             LET L == Len(pages[1])
                 n == (L + chunk_size - 1) \div chunk_size
             IN  /\ Len(character_split_texts) = n
                 /\ \A i \in 1..n :
                       character_split_texts[i]
                          = SubSeq(pages[1], (i - 1) * chunk_size + 1,
                                   Min(i * chunk_size, L))

\* A separator-free text of two and a half times chunk_size has been split
\* into three segments of chunk_size, chunk_size and half of it.
C4_Witness ==
    /\ pc = "char_split"
    /\ Len(pages) = 1
    /\ NoWS(pages[1]) = pages[1]
    /\ Len(pages[1]) = 2 * chunk_size + chunk_size \div 2
    /\ Len(character_split_texts) = 3
    /\ Len(character_split_texts[1]) = chunk_size
    /\ Len(character_split_texts[2]) = chunk_size
    /\ Len(character_split_texts[3]) = chunk_size \div 2

\* C5: a query returns exactly min(n_results, N) entries of an index of N
\* entries, and no id twice.
C5_ResultCount ==
    Answered =>
       /\ Len(results.ids) = Min(n_results, Len(Entries))
       /\ Len(results.documents) = Len(results.ids)
       /\ Len(results.distances) = Len(results.ids)
       /\ \A i, j \in 1..Len(results.ids) :
             results.ids[i] = results.ids[j] => i = j
       /\ \A i \in 1..Len(results.ids) :
             \E p \in 1..Len(Entries) : Entries[p].id = results.ids[i]

\* n_results = 5 against an index of 3 chunks has returned 3 results.
C5_Witness ==
    /\ pc = "queried"
    /\ Len(Entries) = 3
    /\ n_results > 3
    /\ Len(results.ids) = 3

NoNearerLeftOut ==
    \A p \in 1..Len(Entries) :
       (\A i \in 1..Len(results.ids) : PosOf(i) # p) =>
          \A i \in 1..Len(results.ids) : results.distances[i] <= QueryDistance(p)

C8_EmptyDocumentNoError ==
    (runs = 1 /\ pc # "uploaded" /\ pdf_texts = << >>) => pc # "error"

\* C9: a query is answered only in a run whose add has completed, against
\* an index that holds the whole batch of that add.
C9_QueryAfterCompleteAdd ==
    /\ Answered =>
          /\ error = "none"
          /\ token_split_texts # << >>
          /\ Len(Entries) = Len(token_split_texts)
          /\ \A i \in 1..Len(Entries) : Entries[i].document = token_split_texts[i]
    /\ ~Answered => (results = NoResults /\ ~rag_call.made)

\* A query has been answered from an index of several entries.
C9_Witness ==
    /\ pc = "queried"
    /\ Len(Entries) >= 2
    /\ Len(results.ids) >= 2

IdsInInsertionOrder ==
    /\ \A i \in 1..Len(Entries) : Entries[i].id = ToString(i - 1)
    /\ \A i, j \in 1..Len(Entries) : Entries[i].id = Entries[j].id => i = j

AppendOnly ==
    \A n \in DOMAIN collections :
       /\ n \in DOMAIN collections'
       /\ Len(collections'[n]) >= Len(collections[n])
       /\ SubSeq(collections'[n], 1, Len(collections[n])) = collections[n]

\* C10: the i-th entry of the index has the i-th id, all ids are distinct,
\* and every step, in whatever run, leaves the entries already in the index
\* in place.
C10_IdsAppendOnly == []IdsInInsertionOrder /\ [][AppendOnly]_vars

\* A second run of main() has ended at create_collection with the first
\* run's entries still in the index.
C10_Witness ==
    /\ runs = 2
    /\ pc = "error"
    /\ error = "UniqueConstraintError"
    /\ Len(Entries) >= 2
    /\ token_split_texts # << >>

====
